---- MODULE Spec2Model ----
(***************************************************************************)
(* Model of the crawl - cache - parse - resume pipeline of                 *)
(* squishmallowdex.py: fetch() with its page cache, the classifier, the    *)
(* two progress files, the CSV checkpoint and the batch loop of main().    *)
(*                                                                         *)
(* A page (the bytes of a response or of a cache file) is a string token;  *)
(* the parsing operators say what each token holds.  "" is the empty file. *)
(* A URL is a number: MASTER_LIST is the index page, the members of Leaf   *)
(* are the pages it links to.  A name is the sequence of its lower-cased   *)
(* words, << >> standing for both None and "".  A page token says what     *)
(* the page is: "index" the master list, "char" a character page with an   *)
(* image, "bare" a character page without one, "list" a list page,         *)
(* "anon" a page with an infobox and neither an h1 nor an og:title.        *)
(***************************************************************************)
EXTENDS Integers, Sequences, FiniteSets, TLC

\* ------------------------------------------------------------- bounds
\* runs of main() in a behaviour, and Ctrl+C presses in a behaviour
MaxRuns == 2
MaxInterrupts == 1

\* ------------------------------------------------------------- helpers
Range(s) == {s[k] : k \in 1..Len(s)}

\* ------------------------------------------------------------- constants
MASTER_LIST == 0
\* None, and the empty string a CSV field holds for it
NoImage == 0
EmptyField == -1
Leaf == {1, 2}
URLs == {MASTER_LIST} \cup Leaf

RECURSIVE SortedSeq(_)
SortedSeq(S) ==
    IF S = {} THEN << >>
    ELSE LET m == CHOOSE x \in S : \A y \in S : x <= y
         IN <<m>> \o SortedSeq(S \ {m})

NoFile == "<nofile>"
LeafPages == {"char", "bare", "list", "anon"}
IndexPages == {"index"}

\* --limit and --batch-size values that are tried
Limits == {0, 1}
BatchSizes == {1, 2}


\* ------------------------------------------------------------- parsing
\* The hrefs of a page in document order (the index links to itself, to
\* every leaf page, and to the first leaf page a second time).
Hrefs(html) ==
    IF html = "index"
    THEN <<MASTER_LIST>> \o SortedSeq(Leaf) \o <<1>>
    ELSE << >>

NOISY_PAGES(url) == url = MASTER_LIST

\* every link is kept, a second occurrence too
Dedup_KeepAll(s, seen) == s

RECURSIVE Dedup(_, _)
Dedup(s, seen) ==
    IF s = << >> THEN << >>
    ELSE IF Head(s) \in seen THEN Dedup(Tail(s), seen)
    ELSE <<Head(s)>> \o Dedup(Tail(s), seen \cup {Head(s)})

extract_master_list_urls(master_html) ==
    SelectSeq(Dedup(Hrefs(master_html), {}), LAMBDA url : ~NOISY_PAGES(url))

PageName(html) ==
    CASE html = "char" -> <<"fifi">>
      [] html = "bare" -> <<"bo">>
      [] html = "list" -> <<"master", "list">>
      [] OTHER -> << >>

parse_infobox(html) ==
    CASE html = "char" -> {"Type", "Height"}
      [] html = "bare" -> {"Year"}
      [] html = "list" -> {"Type"}
      [] html = "anon" -> {"Type"}
      [] OTHER -> {}

PageImage(html, url) == IF html = "char" THEN url ELSE NoImage

\* the row; the second component of the result is parse_infobox(html)
parse_squish_page(html, url) ==
    [Name |-> PageName(html), URL |-> url, ImageURL |-> PageImage(html, url)]

NonCharacterPhrases ==
    {<<"master", "list">>, <<"main", "page">>, <<"all", "pages">>,
     <<"squishville">>, <<"roblox">>}

\* re.I: a word of a title is compared whatever its case.  A name is the
\* sequence of its words, which single spaces separate; "_" is a letter of
\* a word.
Lower(word) ==
    CASE word = "Master" -> "master"
      [] word = "List" -> "list"
      [] word = "Lists" -> "lists"
      [] word = "Main" -> "main"
      [] word = "Page" -> "page"
      [] word = "All" -> "all"
      [] word = "Pages" -> "pages"
      [] word = "Squishville" -> "squishville"
      [] word = "ROBLOX" -> "roblox"
      [] OTHER -> word

\* a search that compares the words as they are written
NON_CHARACTER_TITLES_CaseSensitive(name) ==
    \E p \in NonCharacterPhrases :
        \E k \in 0..(Len(name) - Len(p)) :
            SubSeq(name, k + 1, k + Len(p)) = p

NON_CHARACTER_TITLES(name) ==
    \E p \in NonCharacterPhrases :
        \E k \in 0..(Len(name) - Len(p)) :
            [i \in 1..Len(p) |-> Lower(name[k + i])] = p

required_keys == {"Type", "Color", "Squad", "Size(s)", "Collector Number", "Year"}

\* a classifier that does not look at the name being there
is_character_page_AnyName(name, info) ==
    /\ ~NON_CHARACTER_TITLES(name)
    /\ info # {}
    /\ info \cap required_keys # {}

is_character_page(name, info) ==
    /\ name # << >>
    /\ ~NON_CHARACTER_TITLES(name)
    /\ info # {}
    /\ info \cap required_keys # {}

\* ------------------------------------------------------------- files
Absent == [exists |-> FALSE, lines |-> << >>]

\* A line of a ledger file is a number: a URL, a URL followed by white
\* space (the URL plus Padded), the first part of a URL cut by a torn write
\* (the URL plus Torn), or nothing at all (EmptyLine).
Padded == 10
Torn == 20
EmptyLine == -1

\* line.strip()
strip(line) == IF line >= Padded /\ line < Torn THEN line - Padded ELSE line

read_progress(file) ==
    IF file.exists
    THEN {strip(l) : l \in Range(file.lines)} \ {EmptyLine}
    ELSE {}

append_progress(file, url) == [exists |-> TRUE, lines |-> Append(file.lines, url)]

read_existing_csv(file) == IF file.exists THEN file.lines ELSE << >>

\* csv.DictWriter writes None as the empty field
CsvField(v) == IF v = NoImage THEN EmptyField ELSE v

\* fieldnames: the columns of the CSV that the model carries
Columns == {"Name", "URL", "ImageURL"}

\* a writer that stores each row as it is
write_csv_AsIs(rs) == [exists |-> TRUE, lines |-> rs]

\* extrasaction="ignore": a key that is not a column is left out
write_csv(rs) ==
    [exists |-> TRUE,
     lines |-> [k \in 1..Len(rs) |->
                   [c \in Columns |->
                       IF c = "ImageURL" THEN CsvField(rs[k][c])
                       ELSE rs[k][c]]]]

\* ------------------------------------------------------------- state
VARIABLES
    \* on disk
    cache, progress_file, skipped_file, csv_file, images, unsynced,
    \* main()
    pc, args, rows, existing_count, urls, processed_urls, skipped_urls,
    collected_in_batch, idx, log,
    \* fetch()
    fpc, content, page_html,
    \* what happened (history)
    runs, snap, mark, exc, start_known, fetched, interrupted, enumerated,
    final_saved, net, slept, last_ok, unrested, hasty, interrupts,
    failed, retry, rejected_ever, reconstructed,
    \* a call of a pure function and what it returned
    call, result

disk == <<cache, progress_file, skipped_file, csv_file, images, unsynced>>
mainv == <<pc, args, rows, existing_count, urls, processed_urls, skipped_urls,
           collected_in_batch, idx, log>>
fetchv == <<fpc, content, page_html>>
hist == <<runs, snap, mark, exc, start_known, fetched, interrupted, enumerated,
          final_saved, net, slept, last_ok, unrested, hasty, interrupts,
          failed, retry>>
obs_store == <<rejected_ever, reconstructed>>
pure == <<call, result>>
vars == <<disk, mainv, fetchv, hist, obs_store, pure>>

ledger == <<progress_file, skipped_file, unsynced>>
obs_fetch == <<net, slept, last_ok, unrested, hasty>>
obs_run == <<runs, interrupts, start_known, fetched, interrupted, enumerated,
             final_saved, failed, retry>>
obs_iter == <<snap, mark, exc>>

NoArgs == [rebuild |-> FALSE, refresh |-> FALSE, dry_run |-> FALSE,
           limit |-> 0, batch_size |-> 1]
NoCall == [name |-> << >>, info |-> {}]
NoLog == [new_catches |-> 0, skipped |-> 0, errors |-> 0]
NoSnap == [rows |-> << >>, processed |-> {}, skipped |-> {},
           progress_file |-> Absent, skipped_file |-> Absent,
           csv_file |-> Absent, errors |-> 0, collected |-> 0]

\* The disk is empty, or it is as a run of main() without --limit leaves it
\* when every request succeeds and every leaf page is a character page
\* (the first with an image, the other without).
CrawledPage(url) ==
    CASE url = MASTER_LIST -> "index"
      [] url = 1 -> "char"
      [] OTHER -> "bare"

CrawledRows == [k \in 1..Cardinality(Leaf) |->
                   parse_squish_page(CrawledPage(SortedSeq(Leaf)[k]),
                                     SortedSeq(Leaf)[k])]

Crawled ==
    /\ cache = [url \in URLs |-> CrawledPage(url)]
    /\ progress_file = [exists |-> TRUE, lines |-> SortedSeq(Leaf)]
    /\ skipped_file = Absent
    /\ csv_file = write_csv(CrawledRows)
    /\ images = {1}
    /\ unsynced = {}
    /\ last_ok = cache

Empty ==
    /\ cache = [url \in URLs |-> NoFile]
    /\ progress_file = Absent
    /\ skipped_file = Absent
    /\ csv_file = Absent
    /\ images = {}
    /\ unsynced = {}
    /\ last_ok = cache

\* no run of main() has started
Idle ==
    /\ pc = "idle"
    /\ args = NoArgs
    /\ rows = << >>
    /\ existing_count = 0
    /\ urls = << >>
    /\ processed_urls = {}
    /\ skipped_urls = {}
    /\ collected_in_batch = 0
    /\ idx = 0
    /\ log = NoLog
    /\ fpc = "idle"
    /\ content = NoFile
    /\ page_html = NoFile
    /\ runs = 0
    /\ snap = NoSnap
    /\ mark = "none"
    /\ exc = "none"
    /\ start_known = {}
    /\ fetched = {}
    /\ interrupted = "no"
    /\ enumerated = FALSE
    /\ final_saved = FALSE
    /\ net = FALSE
    /\ slept = FALSE
    /\ unrested = FALSE
    /\ hasty = FALSE
    /\ interrupts = 0
    /\ failed = {}
    /\ retry = {}
    /\ rejected_ever = {}
    /\ reconstructed = FALSE

Init ==
    /\ Empty \/ Crawled
    /\ Idle
    /\ call = NoCall
    /\ result = "unset"

\* ------------------------------------------------------------- main(): startup
ArgSets ==
    [rebuild : BOOLEAN, refresh : BOOLEAN, dry_run : BOOLEAN,
     limit : Limits, batch_size : BatchSizes]

RunOver == pc \in {"idle", "done", "aborted"}

\* The URL of the fetch() call in progress.
FetchUrl == IF pc = "index" THEN MASTER_LIST ELSE urls[idx]

\* The row of the page being classified.
Row == parse_squish_page(page_html, urls[idx])

\* a --rebuild that removes no file
RebuildClears_Nothing(rebuild, file) == file

\* if args.rebuild: os.remove(f) for both progress files
RebuildClears(rebuild, file) == IF rebuild THEN Absent ELSE file

\* --rebuild removes both progress files; the CSV is loaded unless --rebuild;
\* then main() calls fetch(MASTER_LIST).
StartRun(a) ==
    /\ RunOver
    /\ runs < MaxRuns
    /\ runs' = runs + 1
    /\ args' = a
    /\ progress_file' = RebuildClears(a.rebuild, progress_file)
    /\ skipped_file' = RebuildClears(a.rebuild, skipped_file)
    /\ unsynced' = IF a.rebuild THEN {} ELSE unsynced
    /\ rows' = IF a.rebuild THEN << >> ELSE read_existing_csv(csv_file)
    /\ existing_count' = Len(rows')
    /\ log' = NoLog
    /\ urls' = << >>
    /\ processed_urls' = {}
    /\ skipped_urls' = {}
    /\ collected_in_batch' = 0
    /\ idx' = 0
    /\ pc' = "index"
    /\ fpc' = "check"
    /\ content' = NoFile
    /\ page_html' = NoFile
    /\ snap' = NoSnap
    /\ mark' = "none"
    /\ exc' = "none"
    /\ start_known' = {}
    /\ fetched' = {}
    /\ interrupted' = "no"
    /\ enumerated' = FALSE
    /\ final_saved' = FALSE
    /\ net' = FALSE
    /\ slept' = FALSE
    /\ unrested' = FALSE
    /\ hasty' = FALSE
    /\ failed' = {}
    /\ retry' = IF pc = "done" THEN failed ELSE {}
    /\ rejected_ever' = IF a.rebuild THEN {} ELSE rejected_ever
    /\ reconstructed' = FALSE
    /\ UNCHANGED <<cache, csv_file, images, last_ok, interrupts, pure>>

\* ------------------------------------------------------------- fetch()
\* What the site can answer: the first leaf page is a character page with
\* an image or a list page, the other leaf page a character page without an
\* image or a page without a name.
Responses(url) ==
    CASE url = MASTER_LIST -> IndexPages
      [] url = 1 -> {"char", "list"}
      [] OTHER -> {"bare", "anon"}

\* a cache test that does not look at refresh
CacheHit_IgnoresRefresh(file, refresh) == file # NoFile

CacheHit(file, refresh) == file # NoFile /\ ~refresh

\* An exception leaves fetch(): main() has no handler around the index
\* fetch, and the handlers of the loop around the fetch of a leaf page.
\* an exception that the handler of the loop body receives wherever it is
\* raised
Raised_Swallowed(kind) ==
    /\ fpc' = "idle"
    /\ content' = NoFile
    /\ page_html' = NoFile
    /\ pc' = "except"
    /\ exc' = kind

Raised(kind) ==
    /\ fpc' = "idle"
    /\ content' = NoFile
    /\ page_html' = NoFile
    /\ IF pc = "index"
       THEN pc' = "aborted" /\ exc' = kind
       ELSE pc' = "except" /\ exc' = kind

FetchCheck ==
    /\ fpc = "check"
    /\ net' = FALSE
    /\ slept' = FALSE
    /\ IF CacheHit(cache[FetchUrl], args.refresh)
       THEN /\ page_html' = cache[FetchUrl]
            /\ fpc' = "ret"
       ELSE /\ page_html' = page_html
            /\ fpc' = "get"
    /\ UNCHANGED <<failed, retry, disk, mainv, content, runs, interrupts,
                   snap, mark, exc, start_known, fetched, interrupted,
                   enumerated, final_saved, last_ok, unrested, hasty>>
    /\ UNCHANGED <<obs_store, pure>>

\* session.get + raise_for_status: a response with a success status
FetchGetOk(resp) ==
    /\ fpc = "get"
    /\ resp \in Responses(FetchUrl)
    /\ content' = resp
    /\ fpc' = "write"
    /\ net' = TRUE
    /\ hasty' = unrested
    /\ unrested' = TRUE
    /\ UNCHANGED <<failed, retry, disk, mainv, page_html, runs, interrupts,
                   snap, mark, exc, start_known, fetched, interrupted,
                   enumerated, final_saved, slept, last_ok>>
    /\ UNCHANGED <<obs_store, pure>>

\* a failure whose body is written to the cache file before the raise
FetchGetFail_WritesBody ==
    /\ fpc = "get"
    /\ hasty' = unrested
    /\ unrested' = TRUE
    /\ last_ok' = [last_ok EXCEPT ![FetchUrl] = NoFile]
    /\ failed' = IF pc = "index" THEN failed ELSE failed \cup {FetchUrl}
    /\ cache' = [cache EXCEPT ![FetchUrl] = ""]
    /\ Raised("fetch")
    /\ UNCHANGED <<retry, progress_file, skipped_file, csv_file, images,
                   unsynced, args, rows, existing_count, urls,
                   processed_urls, skipped_urls, collected_in_batch, idx,
                   log, runs, interrupts, snap, mark, start_known, fetched,
                   interrupted, enumerated, final_saved, net, slept>>
    /\ UNCHANGED <<obs_store, pure>>

\* session.get + raise_for_status: a bad status, a transport error, a timeout
FetchGetFail ==
    /\ fpc = "get"
    /\ hasty' = unrested
    /\ unrested' = TRUE
    /\ last_ok' = [last_ok EXCEPT ![FetchUrl] = NoFile]
    /\ failed' = IF pc = "index" THEN failed ELSE failed \cup {FetchUrl}
    /\ Raised("fetch")
    /\ UNCHANGED <<retry, disk, args, rows, existing_count, urls,
                   processed_urls, skipped_urls, collected_in_batch, idx,
                   log, runs, interrupts, snap, mark, start_known, fetched,
                   interrupted, enumerated, final_saved, net, slept>>
    /\ UNCHANGED <<obs_store, pure>>

FetchWrite ==
    /\ fpc = "write"
    /\ cache' = [cache EXCEPT ![FetchUrl] = content]
    /\ fpc' = "sleep"
    /\ UNCHANGED <<progress_file, skipped_file, csv_file, images, unsynced,
                   mainv, content, page_html, hist>>
    /\ UNCHANGED <<obs_store, pure>>

\* a return without time.sleep(delay)
FetchSleep_NoSleep ==
    /\ fpc = "sleep"
    /\ page_html' = content
    /\ fpc' = "ret"
    /\ UNCHANGED <<disk, mainv, content, hist>>
    /\ UNCHANGED <<obs_store, pure>>

\* time.sleep(delay); return content
FetchSleep ==
    /\ fpc = "sleep"
    /\ slept' = TRUE
    /\ unrested' = FALSE
    /\ page_html' = content
    /\ fpc' = "ret"
    /\ UNCHANGED <<failed, retry, disk, mainv, content, runs, interrupts,
                   snap, mark, exc, start_known, fetched, interrupted,
                   enumerated, final_saved, net, last_ok, hasty>>
    /\ UNCHANGED <<obs_store, pure>>


\* ------------------------------------------------------------- main(): enumeration
\* a rebuild of the progress that never happens
Reconstruct_Never == FALSE

\* urls = extract_master_list_urls(master_html); both progress files are
\* read; with rows but no processed URL the progress is rebuilt from the CSV.
Reconstruct == rows # << >> /\ read_progress(progress_file) = {}

RowURLs(rs) == {rs[k].URL : k \in 1..Len(rs)}

Enumerate ==
    /\ pc = "index"
    /\ fpc = "ret"
    /\ urls' = extract_master_list_urls(page_html)
    /\ skipped_urls' = read_progress(skipped_file)
    /\ processed_urls' =
          IF Reconstruct THEN RowURLs(rows) ELSE read_progress(progress_file)
    /\ IF Reconstruct /\ ~args.dry_run
       THEN /\ progress_file' =
                  [exists |-> TRUE, lines |-> SortedSeq(RowURLs(rows))]
            /\ unsynced' = unsynced \cup {"progress"}
       ELSE UNCHANGED <<progress_file, unsynced>>
    /\ start_known' = processed_urls' \cup skipped_urls'
    /\ enumerated' = TRUE
    /\ last_ok' = [last_ok EXCEPT ![MASTER_LIST] = page_html]
    /\ idx' = 0
    /\ pc' = "loop"
    /\ fpc' = "idle"
    /\ content' = NoFile
    /\ page_html' = NoFile
    /\ UNCHANGED <<failed, retry, cache, skipped_file, csv_file, images,
                   args, rows, existing_count, collected_in_batch, log,
                   obs_iter, runs, interrupts, fetched, interrupted,
                   final_saved, net, slept, unrested, hasty>>
    /\ reconstructed' = (rows # << >> /\ ~progress_file.exists)
    /\ UNCHANGED <<rejected_ever, pure>>

\* ------------------------------------------------------------- main(): the loop
\* a test that forgets the rejected URLs
AlreadyDone_ProcessedOnly(url, processed, skipped) == url \in processed

AlreadyDone(url, processed, skipped) == url \in processed \/ url \in skipped

\* a test that lets one more entry through
LimitReached_OneMore(limit, new_catches) == limit > 0 /\ new_catches > limit

LimitReached(limit, new_catches) == limit > 0 /\ new_catches >= limit

AtLoop == pc = "loop" /\ idx < Len(urls)

Snapshot ==
    [rows |-> rows, processed |-> processed_urls, skipped |-> skipped_urls,
     progress_file |-> progress_file, skipped_file |-> skipped_file,
     csv_file |-> csv_file, errors |-> log.errors,
     collected |-> collected_in_batch]

\* the for loop is exhausted
LoopEnd ==
    /\ pc = "loop"
    /\ idx = Len(urls)
    /\ pc' = "final_build"
    /\ snap' = NoSnap
    /\ mark' = "none"
    /\ exc' = "none"
    /\ UNCHANGED <<disk, args, rows, existing_count, urls, processed_urls,
                   skipped_urls, collected_in_batch, idx, log, fetchv, obs_run,
                   obs_fetch>>
    /\ UNCHANGED <<obs_store, pure>>

\* if u in processed_urls or u in skipped_urls: continue
LoopKnown ==
    /\ AtLoop
    /\ AlreadyDone(urls[idx + 1], processed_urls, skipped_urls)
    /\ idx' = idx + 1
    /\ snap' = NoSnap
    /\ mark' = "none"
    /\ exc' = "none"
    /\ UNCHANGED <<disk, pc, args, rows, existing_count, urls, processed_urls,
                   skipped_urls, collected_in_batch, log, fetchv, obs_run,
                   obs_fetch>>
    /\ UNCHANGED <<obs_store, pure>>

\* if limit is not None and log.new_catches >= limit: break
LoopLimit ==
    /\ AtLoop
    /\ ~AlreadyDone(urls[idx + 1], processed_urls, skipped_urls)
    /\ LimitReached(args.limit, log.new_catches)
    /\ pc' = "final_build"
    /\ snap' = NoSnap
    /\ mark' = "none"
    /\ exc' = "none"
    /\ UNCHANGED <<disk, args, rows, existing_count, urls, processed_urls,
                   skipped_urls, collected_in_batch, idx, log, fetchv, obs_run,
                   obs_fetch>>
    /\ UNCHANGED <<obs_store, pure>>

\* --dry-run: the URL is counted as a catch and nothing is fetched
LoopDry ==
    /\ AtLoop
    /\ ~AlreadyDone(urls[idx + 1], processed_urls, skipped_urls)
    /\ ~LimitReached(args.limit, log.new_catches)
    /\ args.dry_run
    /\ idx' = idx + 1
    /\ pc' = "dry"
    /\ snap' = NoSnap
    /\ mark' = "none"
    /\ exc' = "none"
    /\ UNCHANGED <<disk, args, rows, existing_count, urls, processed_urls,
                   skipped_urls, collected_in_batch, log, fetchv, obs_run,
                   obs_fetch>>
    /\ UNCHANGED <<obs_store, pure>>

DryRun ==
    /\ pc = "dry"
    /\ log' = [log EXCEPT !.new_catches = @ + 1]
    /\ collected_in_batch' =
          IF collected_in_batch + 1 >= args.batch_size THEN 0
          ELSE collected_in_batch + 1
    /\ pc' = "loop"
    /\ UNCHANGED <<disk, args, rows, existing_count, urls, processed_urls,
                   skipped_urls, idx, fetchv, hist>>
    /\ UNCHANGED <<obs_store, pure>>

\* page_html = fetch(u, ...)
LoopFetch ==
    /\ AtLoop
    /\ ~AlreadyDone(urls[idx + 1], processed_urls, skipped_urls)
    /\ ~LimitReached(args.limit, log.new_catches)
    /\ ~args.dry_run
    /\ idx' = idx + 1
    /\ pc' = "fetch"
    /\ fpc' = "check"
    /\ fetched' = fetched \cup {urls[idx + 1]}
    /\ snap' = Snapshot
    /\ mark' = "none"
    /\ exc' = "none"
    /\ UNCHANGED <<failed, retry, disk, args, rows, existing_count, urls,
                   processed_urls, skipped_urls, collected_in_batch, log,
                   content, page_html, runs, interrupts, start_known,
                   interrupted, enumerated, final_saved, obs_fetch>>
    /\ UNCHANGED <<obs_store, pure>>

\* row, info = parse_squish_page(page_html, u); is_character_page(...)
Classify ==
    /\ pc = "fetch"
    /\ fpc = "ret"
    /\ fpc' = "idle"
    /\ last_ok' = [last_ok EXCEPT ![urls[idx]] = page_html]
    /\ pc' = IF is_character_page(Row.Name, parse_infobox(page_html))
             THEN "acc_rows" ELSE "skip_log"
    /\ rejected_ever' =
          IF is_character_page(Row.Name, parse_infobox(page_html))
          THEN rejected_ever ELSE rejected_ever \cup {urls[idx]}
    /\ UNCHANGED <<reconstructed, pure>>
    /\ UNCHANGED <<disk, args, rows, existing_count, urls, processed_urls,
                   skipped_urls, collected_in_batch, idx, log, content,
                   page_html, obs_run, obs_iter, net, slept, unrested, hasty>>

\* log.skip(...)
SkipLog ==
    /\ pc = "skip_log"
    /\ log' = [log EXCEPT !.skipped = @ + 1]
    /\ pc' = "skip_add"
    /\ UNCHANGED <<disk, args, rows, existing_count, urls, processed_urls,
                   skipped_urls, collected_in_batch, idx, fetchv, hist>>
    /\ UNCHANGED <<obs_store, pure>>

\* skipped_urls.add(u)
SkipAdd ==
    /\ pc = "skip_add"
    /\ skipped_urls' = skipped_urls \cup {urls[idx]}
    /\ pc' = "skip_append"
    /\ UNCHANGED <<disk, args, rows, existing_count, urls, processed_urls,
                   collected_in_batch, idx, log, fetchv, hist>>
    /\ UNCHANGED <<obs_store, pure>>

\* append_progress(skipped_file, u); continue
SkipAppend ==
    /\ pc = "skip_append"
    /\ skipped_file' = append_progress(skipped_file, urls[idx])
    /\ unsynced' = unsynced \cup {"skipped"}
    /\ mark' = "rejected"
    /\ pc' = "loop"
    /\ UNCHANGED <<cache, progress_file, csv_file, images, args, rows,
                   existing_count, urls, processed_urls, skipped_urls,
                   collected_in_batch, idx, log, fetchv, snap, exc, obs_run,
                   obs_fetch>>
    /\ UNCHANGED <<obs_store, pure>>

\* rows.append(row)
AccRows ==
    /\ pc = "acc_rows"
    /\ rows' = Append(rows, Row)
    /\ pc' = "acc_add"
    /\ UNCHANGED <<disk, args, existing_count, urls, processed_urls,
                   skipped_urls, collected_in_batch, idx, log, fetchv, hist>>
    /\ UNCHANGED <<obs_store, pure>>

\* processed_urls.add(u)
\* an accepted URL put into the rejected set
AccAdd_IntoSkipped ==
    /\ pc = "acc_add"
    /\ skipped_urls' = skipped_urls \cup {urls[idx]}
    /\ pc' = "acc_append"
    /\ UNCHANGED <<disk, args, rows, existing_count, urls, processed_urls,
                   collected_in_batch, idx, log, fetchv, hist>>
    /\ UNCHANGED <<obs_store, pure>>

AccAdd ==
    /\ pc = "acc_add"
    /\ processed_urls' = processed_urls \cup {urls[idx]}
    /\ pc' = "acc_append"
    /\ UNCHANGED <<disk, args, rows, existing_count, urls, skipped_urls,
                   collected_in_batch, idx, log, fetchv, hist>>
    /\ UNCHANGED <<obs_store, pure>>

\* append_progress(args.progress_file, u)
AccAppend ==
    /\ pc = "acc_append"
    /\ progress_file' = append_progress(progress_file, urls[idx])
    /\ unsynced' = unsynced \cup {"progress"}
    /\ pc' = "acc_count"
    /\ UNCHANGED <<cache, skipped_file, csv_file, images, args, rows,
                   existing_count, urls, processed_urls, skipped_urls,
                   collected_in_batch, idx, log, fetchv, hist>>
    /\ UNCHANGED <<obs_store, pure>>

\* collected_in_batch += 1
AccCount ==
    /\ pc = "acc_count"
    /\ collected_in_batch' = collected_in_batch + 1
    /\ pc' = "acc_catch"
    /\ UNCHANGED <<disk, args, rows, existing_count, urls, processed_urls,
                   skipped_urls, idx, log, fetchv, hist>>
    /\ UNCHANGED <<obs_store, pure>>

BatchDue(collected, batch_size) == collected >= batch_size

\* log.catch(...); if collected_in_batch >= args.batch_size: ...
AccCatch ==
    /\ pc = "acc_catch"
    /\ log' = [log EXCEPT !.new_catches = @ + 1]
    /\ mark' = "accepted"
    /\ pc' = IF BatchDue(collected_in_batch, args.batch_size)
             THEN "batch_build" ELSE "loop"
    /\ UNCHANGED <<disk, args, rows, existing_count, urls, processed_urls,
                   skipped_urls, collected_in_batch, idx, fetchv, snap, exc,
                   obs_run, obs_fetch>>
    /\ UNCHANGED <<obs_store, pure>>


\* ------------------------------------------------------------- save_collection()
\* build_html_rows(): the image URLs it hands to download_image, in row order.
ToDownload(rs, imgs, refresh, download_images) ==
    IF download_images
    THEN SelectSeq([k \in 1..Len(rs) |-> rs[k].ImageURL],
                   LAMBDA img : /\ img \notin {NoImage, EmptyField}
                                /\ (img \notin imgs \/ refresh))
    ELSE << >>

Downloads == ToDownload(rows, images, args.refresh, ~args.dry_run)

\* every download_image() call returns
BuildOk == images' = images \cup Range(Downloads)

\* download_image() raises (bad status, transport error) at call k + 1
BuildFail(k) ==
    /\ k < Len(Downloads)
    /\ images' = images \cup Range(SubSeq(Downloads, 1, k))

_sync_progress_file(dirty, name, file) ==
    IF file.exists THEN dirty \ {name} ELSE dirty

SyncBoth ==
    _sync_progress_file(
        _sync_progress_file(unsynced, "progress", progress_file),
        "skipped", skipped_file)

BatchBuild ==
    /\ pc = "batch_build"
    /\ BuildOk
    /\ pc' = "batch_write"
    /\ UNCHANGED <<cache, ledger, csv_file, args, rows, existing_count, urls,
                   processed_urls, skipped_urls, collected_in_batch, idx, log,
                   fetchv, hist>>
    /\ UNCHANGED <<obs_store, pure>>

BatchBuildFail(k) ==
    /\ pc = "batch_build"
    /\ BuildFail(k)
    /\ pc' = "except"
    /\ exc' = "image"
    /\ UNCHANGED <<cache, ledger, csv_file, args, rows, existing_count, urls,
                   processed_urls, skipped_urls, collected_in_batch, idx, log,
                   fetchv, snap, mark, obs_run, obs_fetch>>
    /\ UNCHANGED <<obs_store, pure>>

\* render_html(...); write_csv(rows, csv_path)
BatchWrite ==
    /\ pc = "batch_write"
    /\ csv_file' = IF args.dry_run THEN csv_file ELSE write_csv(rows)
    /\ pc' = "batch_sync"
    /\ UNCHANGED <<cache, ledger, images, args, rows, existing_count, urls,
                   processed_urls, skipped_urls, collected_in_batch, idx, log,
                   fetchv, hist>>
    /\ UNCHANGED <<obs_store, pure>>

\* both _sync_progress_file calls; collected_in_batch = 0
BatchSync ==
    /\ pc = "batch_sync"
    /\ unsynced' = IF args.dry_run THEN unsynced ELSE SyncBoth
    /\ collected_in_batch' = 0
    /\ pc' = "batch_sleep"
    /\ UNCHANGED <<cache, progress_file, skipped_file, csv_file, images, args,
                   rows, existing_count, urls, processed_urls, skipped_urls,
                   idx, log, fetchv, hist>>
    /\ UNCHANGED <<obs_store, pure>>

\* time.sleep(args.batch_delay)
BatchSleep ==
    /\ pc = "batch_sleep"
    /\ pc' = "loop"
    /\ UNCHANGED <<disk, args, rows, existing_count, urls, processed_urls,
                   skipped_urls, collected_in_batch, idx, log, fetchv, hist>>
    /\ UNCHANGED <<obs_store, pure>>

\* except Exception as exc: log.error(...)
\* a handler that records the failed URL as rejected
Except_MarksSkipped ==
    /\ pc = "except"
    /\ log' = [log EXCEPT !.errors = @ + 1]
    /\ skipped_urls' = skipped_urls \cup {urls[idx]}
    /\ skipped_file' = append_progress(skipped_file, urls[idx])
    /\ unsynced' = unsynced \cup {"skipped"}
    /\ mark' = IF exc = "fetch" THEN "failed" ELSE mark
    /\ pc' = "loop"
    /\ UNCHANGED <<cache, progress_file, csv_file, images, args, rows,
                   existing_count, urls, processed_urls, collected_in_batch,
                   idx, fetchv, snap, exc, obs_run, obs_fetch>>
    /\ UNCHANGED <<obs_store, pure>>

Except ==
    /\ pc = "except"
    /\ log' = [log EXCEPT !.errors = @ + 1]
    /\ mark' = IF exc = "fetch" THEN "failed" ELSE mark
    /\ pc' = "loop"
    /\ UNCHANGED <<disk, args, rows, existing_count, urls, processed_urls,
                   skipped_urls, collected_in_batch, idx, fetchv, snap, exc,
                   obs_run, obs_fetch>>
    /\ UNCHANGED <<obs_store, pure>>

\* ------------------------------------------------------------- main(): the end
FinalBuild ==
    /\ pc = "final_build"
    /\ BuildOk
    /\ pc' = "final_write"
    /\ UNCHANGED <<cache, ledger, csv_file, args, rows, existing_count, urls,
                   processed_urls, skipped_urls, collected_in_batch, idx, log,
                   fetchv, hist>>
    /\ UNCHANGED <<obs_store, pure>>

\* no handler is around the final save_collection(): the run ends here
FinalBuildFail(k) ==
    /\ pc = "final_build"
    /\ BuildFail(k)
    /\ pc' = "aborted"
    /\ UNCHANGED <<cache, ledger, csv_file, args, rows, existing_count, urls,
                   processed_urls, skipped_urls, collected_in_batch, idx, log,
                   fetchv, hist>>
    /\ UNCHANGED <<obs_store, pure>>

FinalWrite ==
    /\ pc = "final_write"
    /\ csv_file' = IF args.dry_run THEN csv_file ELSE write_csv(rows)
    /\ final_saved' = ~args.dry_run
    /\ pc' = "final_sync"
    /\ UNCHANGED <<failed, retry, cache, ledger, images, args, rows,
                   existing_count, urls, processed_urls, skipped_urls,
                   collected_in_batch, idx, log, fetchv, obs_iter, runs,
                   interrupts, start_known, fetched, interrupted, enumerated,
                   obs_fetch>>
    /\ UNCHANGED <<obs_store, pure>>

FinalSync ==
    /\ pc = "final_sync"
    /\ unsynced' = IF args.dry_run THEN unsynced ELSE SyncBoth
    /\ pc' = "done"
    /\ UNCHANGED <<cache, progress_file, skipped_file, csv_file, images, args,
                   rows, existing_count, urls, processed_urls, skipped_urls,
                   collected_in_batch, idx, log, fetchv, hist>>
    /\ UNCHANGED <<obs_store, pure>>

\* ----------------------------------------------------------- main(): --stats-only
\* The runs are started with --stats-only, on an empty disk, on a crawled
\* one, or on one crawled with --no-download-images (no image file).
StatsArgSets ==
    [rebuild : BOOLEAN, refresh : BOOLEAN, dry_run : BOOLEAN, limit : {0},
     batch_size : {1}, stats_only : {TRUE}, no_download_images : BOOLEAN]

InitStats ==
    /\ \/ Empty
       \/ Crawled
       \/ /\ cache = [url \in URLs |-> CrawledPage(url)]
          /\ progress_file = [exists |-> TRUE, lines |-> SortedSeq(Leaf)]
          /\ skipped_file = Absent
          /\ csv_file = write_csv(CrawledRows)
          /\ images = {}
          /\ unsynced = {}
          /\ last_ok = cache
    /\ Idle
    /\ call = NoCall
    /\ result = "unset"

\* main() up to the --stats-only test: --rebuild removes both progress
\* files, the CSV is loaded unless --rebuild; without rows main() returns
StartStats(a) ==
    /\ RunOver
    /\ runs < MaxRuns
    /\ runs' = runs + 1
    /\ args' = a
    /\ progress_file' = RebuildClears(a.rebuild, progress_file)
    /\ skipped_file' = RebuildClears(a.rebuild, skipped_file)
    /\ unsynced' = IF a.rebuild THEN {} ELSE unsynced
    /\ rows' = IF a.rebuild THEN << >> ELSE read_existing_csv(csv_file)
    /\ existing_count' = Len(rows')
    /\ log' = NoLog
    /\ urls' = << >>
    /\ processed_urls' = {}
    /\ skipped_urls' = {}
    /\ collected_in_batch' = 0
    /\ idx' = 0
    /\ pc' = IF rows' = << >> THEN "done" ELSE "stats_build"
    /\ snap' = NoSnap
    /\ mark' = "none"
    /\ exc' = "none"
    /\ start_known' = {}
    /\ fetched' = {}
    /\ interrupted' = "no"
    /\ enumerated' = FALSE
    /\ final_saved' = FALSE
    /\ net' = FALSE
    /\ failed' = {}
    /\ retry' = {}
    /\ rejected_ever' = IF a.rebuild THEN {} ELSE rejected_ever
    /\ UNCHANGED <<cache, csv_file, images, last_ok, interrupts, fetchv,
                   slept, unrested, hasty, reconstructed, pure>>

\* save_collection(download_images=not args.no_download_images, ...)
StatsDownloads ==
    ToDownload(rows, images, args.refresh,
               ~args.no_download_images /\ ~args.dry_run)

\* build_html_rows(): every download_image() call returns
StatsBuild ==
    /\ pc = "stats_build"
    /\ images' = images \cup Range(StatsDownloads)
    /\ net' = (StatsDownloads # << >>)
    /\ pc' = "stats_write"
    /\ UNCHANGED <<cache, ledger, csv_file, args, rows, existing_count, urls,
                   processed_urls, skipped_urls, collected_in_batch, idx, log,
                   fetchv, runs, snap, mark, exc, start_known, fetched,
                   interrupted, enumerated, final_saved, slept, last_ok,
                   unrested, hasty, interrupts, failed, retry, obs_store,
                   pure>>

\* download_image() raises at call k + 1: nothing handles it
StatsBuildFail(k) ==
    /\ pc = "stats_build"
    /\ k < Len(StatsDownloads)
    /\ images' = images \cup Range(SubSeq(StatsDownloads, 1, k))
    /\ net' = TRUE
    /\ exc' = "image"
    /\ pc' = "aborted"
    /\ UNCHANGED <<cache, ledger, csv_file, args, rows, existing_count, urls,
                   processed_urls, skipped_urls, collected_in_batch, idx, log,
                   fetchv, runs, snap, mark, start_known, fetched,
                   interrupted, enumerated, final_saved, slept, last_ok,
                   unrested, hasty, interrupts, failed, retry, obs_store,
                   pure>>

\* render_html(...); write_csv(rows, csv_path); log.summary(...); return
StatsWrite ==
    /\ pc = "stats_write"
    /\ csv_file' = IF args.dry_run THEN csv_file ELSE write_csv(rows)
    /\ pc' = "done"
    /\ UNCHANGED <<cache, ledger, images, args, rows, existing_count, urls,
                   processed_urls, skipped_urls, collected_in_batch, idx, log,
                   fetchv, hist, obs_store, pure>>

NextStats ==
    \/ \E a \in StatsArgSets : StartStats(a)
    \/ StatsBuild
    \/ \E k \in 0..Cardinality(Leaf) : StatsBuildFail(k)
    \/ StatsWrite

SpecStats == InitStats /\ [][NextStats]_vars

\* ------------------------------------------------------------- Ctrl+C
\* Where the try statement of the loop body is active.
InTry ==
    pc \in {"dry", "fetch", "skip_log", "skip_add", "skip_append", "acc_rows",
            "acc_add", "acc_append", "acc_count", "acc_catch", "batch_build",
            "batch_write", "batch_sync", "batch_sleep"}

Running == ~RunOver

InFetch == fpc \in {"check", "get", "write", "sleep"}

\* KeyboardInterrupt is raised at the current statement.  Inside the try of
\* the loop body the handler breaks out of the loop; anywhere else nothing
\* handles it and main() ends.  Raised while fetch() writes the cache file,
\* the file is left as it was (torn = FALSE) or opened and empty (torn = TRUE).
KeyboardInterrupt(torn) ==
    /\ Running
    /\ interrupts < MaxInterrupts
    /\ interrupts' = interrupts + 1
    /\ torn => fpc = "write"
    /\ cache' = IF torn THEN [cache EXCEPT ![FetchUrl] = ""] ELSE cache
    /\ last_ok' = IF InFetch THEN [last_ok EXCEPT ![FetchUrl] = NoFile]
                  ELSE IF fpc = "ret"
                  THEN [last_ok EXCEPT ![FetchUrl] = page_html]
                  ELSE last_ok
    /\ IF InTry
       THEN pc' = "final_build" /\ interrupted' = "caught"
       ELSE pc' = "aborted" /\ interrupted' = "escaped"
    /\ fpc' = "idle"
    /\ content' = NoFile
    /\ page_html' = NoFile
    /\ snap' = NoSnap
    /\ mark' = "none"
    /\ exc' = "none"
    /\ UNCHANGED <<failed, retry, ledger, csv_file, images, args, rows,
                   existing_count, urls, processed_urls, skipped_urls,
                   collected_in_batch, idx, log, runs, start_known, fetched,
                   enumerated, final_saved, net, slept, unrested, hasty>>
    /\ UNCHANGED <<obs_store, pure>>

\* An OSError is raised by the statement that writes a file: the cache
\* write of fetch() (the file is left as it was, or opened and empty), an
\* append_progress() call, or the write of the CSV in save_collection().
\* The handler of the loop body catches it like any other exception; around
\* the index fetch and the final save there is no handler and main() ends.
\* Ctrl+C and OSError are the two events injected from outside the program
\* and draw on one budget, MaxInterrupts.
StorageWrites ==
    \/ fpc = "write"
    \/ pc \in {"skip_append", "acc_append"}
    \/ (pc \in {"batch_write", "final_write"} /\ ~args.dry_run)

StorageError(torn) ==
    /\ StorageWrites
    /\ interrupts < MaxInterrupts
    /\ interrupts' = interrupts + 1
    /\ torn => fpc = "write"
    /\ cache' = IF torn THEN [cache EXCEPT ![FetchUrl] = ""] ELSE cache
    /\ last_ok' = IF fpc = "write"
                  THEN [last_ok EXCEPT ![FetchUrl] = NoFile] ELSE last_ok
    /\ IF pc \in {"index", "final_write"}
       THEN pc' = "aborted"
       ELSE pc' = "except"
    /\ exc' = "storage"
    /\ fpc' = "idle"
    /\ content' = NoFile
    /\ page_html' = IF fpc = "write" THEN NoFile ELSE page_html
    /\ UNCHANGED <<failed, retry, ledger, csv_file, images, args, rows,
                   existing_count, urls, processed_urls, skipped_urls,
                   collected_in_batch, idx, log, runs, snap, mark,
                   start_known, fetched, interrupted, enumerated, final_saved,
                   net, slept, unrested, hasty>>
    /\ UNCHANGED <<rejected_ever, reconstructed, pure>>

\* ------------------------------------------------------------- specification
Next ==
    \/ \E a \in ArgSets : StartRun(a)
    \/ FetchCheck
    \/ \E resp \in IndexPages \cup LeafPages : FetchGetOk(resp)
    \/ FetchGetFail
    \/ FetchWrite
    \/ FetchSleep
    \/ Enumerate
    \/ LoopEnd
    \/ LoopKnown
    \/ LoopLimit
    \/ LoopDry
    \/ DryRun
    \/ LoopFetch
    \/ Classify
    \/ SkipLog
    \/ SkipAdd
    \/ SkipAppend
    \/ AccRows
    \/ AccAdd
    \/ AccAppend
    \/ AccCount
    \/ AccCatch
    \/ \E k \in 0..Cardinality(Leaf) : BatchBuildFail(k)
    \/ BatchBuild
    \/ BatchWrite
    \/ BatchSync
    \/ BatchSleep
    \/ Except
    \/ \E k \in 0..Cardinality(Leaf) : FinalBuildFail(k)
    \/ FinalBuild
    \/ FinalWrite
    \/ FinalSync
    \/ \E torn \in BOOLEAN : KeyboardInterrupt(torn)
    \/ \E torn \in BOOLEAN : StorageError(torn)

Spec == Init /\ [][Next]_vars

\* ------------------------------------------------------------- is_character_page alone
\* The classifier is applied to a name of at most MaxNameLen words and to
\* the keys of an infobox.
MaxNameLen == 3

Words ==
    {"fifi", "Master", "master", "List", "Lists", "Main", "Page", "All",
     "Pages", "Squishville", "ROBLOX"}

InfoKeys == {"Type", "type", "Height"}

Names == UNION {[1..n -> Words] : n \in 0..MaxNameLen}

InitC20 ==
    /\ Empty
    /\ Idle
    /\ call \in [name : Names, info : SUBSET InfoKeys]
    /\ result = "unset"

Call_is_character_page ==
    /\ result = "unset"
    /\ result' = IF is_character_page(call.name, call.info)
                 THEN "True" ELSE "False"
    /\ UNCHANGED <<disk, mainv, fetchv, hist, obs_store, call>>

NextC20 == Call_is_character_page

SpecC20 == InitC20 /\ [][NextC20]_vars

\* ------------------------------------------------------------- the ledger file alone
\* A ledger file that is absent or holds at most MaxLines lines receives at
\* most MaxAppends calls of append_progress and is read by read_progress.
MaxLines == 2
MaxAppends == 2

LedgerURLs == {1, 2, 1 + Padded}

LedgerLines == LedgerURLs \cup {EmptyLine, 1 + Torn}

LedgerFiles ==
    {Absent} \cup
    {[exists |-> TRUE, lines |-> l] :
        l \in UNION {[1..n -> LedgerLines] : n \in 0..MaxLines}}

NotRead == [done |-> FALSE, value |-> {}]

InitLedger ==
    /\ Idle
    /\ cache = [url \in URLs |-> NoFile]
    /\ last_ok = cache
    /\ skipped_file = Absent
    /\ csv_file = Absent
    /\ images = {}
    /\ unsynced = {}
    /\ progress_file \in LedgerFiles
    /\ call = [file |-> progress_file, appended |-> << >>]
    /\ result = NotRead

Call_append_progress(url) ==
    /\ Len(call.appended) < MaxAppends
    /\ progress_file' = append_progress(progress_file, url)
    /\ call' = [call EXCEPT !.appended = Append(@, url)]
    /\ result' = NotRead
    /\ UNCHANGED <<cache, skipped_file, csv_file, images, unsynced, mainv,
                   fetchv, hist, obs_store>>

Call_read_progress ==
    /\ ~result.done
    /\ result' = [done |-> TRUE, value |-> read_progress(progress_file)]
    /\ UNCHANGED <<disk, mainv, fetchv, hist, obs_store, call>>

NextLedger ==
    \/ \E url \in LedgerURLs : Call_append_progress(url)
    \/ Call_read_progress

SpecLedger == InitLedger /\ [][NextLedger]_vars

\* ------------------------------------------------------ skipped_file_path alone
\* A path is the sequence of its characters.
\* p.rfind(ch): the last position of ch in p, 0 when there is none
rfind(p, ch) ==
    IF \E i \in 1..Len(p) : p[i] = ch
    THEN CHOOSE i \in 1..Len(p) :
             p[i] = ch /\ \A j \in (i + 1)..Len(p) : p[j] # ch
    ELSE 0

\* the last dot of the whole path is taken for the dot of the extension
splitext_AnyDot(p) ==
    LET dotIndex == rfind(p, ".")
    IN  IF dotIndex > 0
        THEN [base |-> SubSeq(p, 1, dotIndex - 1),
              ext |-> SubSeq(p, dotIndex, Len(p))]
        ELSE [base |-> p, ext |-> << >>]

\* os.path.splitext: the extension starts at the last dot of the last
\* component, unless only dots precede it there
splitext(p) ==
    LET sepIndex == rfind(p, "/")
        dotIndex == rfind(p, ".")
    IN  IF /\ dotIndex > sepIndex
           /\ \E i \in (sepIndex + 1)..(dotIndex - 1) : p[i] # "."
        THEN [base |-> SubSeq(p, 1, dotIndex - 1),
              ext |-> SubSeq(p, dotIndex, Len(p))]
        ELSE [base |-> p, ext |-> << >>]

\* f"{base}_skipped{ext or '.txt'}"
skipped_file_path(progress) ==
    LET parts == splitext(progress)
    IN  parts.base \o <<"_", "s", "k", "i", "p", "p", "e", "d">>
            \o (IF parts.ext # << >> THEN parts.ext
                ELSE <<".", "t", "x", "t">>)

\* skipped_file_path is applied twice to a path of at most MaxPathLen
\* characters.
MaxPathLen == 4

PathChars == {"/", ".", "p"}

Paths == UNION {[1..n -> PathChars] : n \in 0..MaxPathLen}

InitSkippedPath ==
    /\ Idle
    /\ Empty
    /\ call \in [path : Paths]
    /\ result = NotRead

Call_skipped_file_path ==
    /\ ~result.done
    /\ result' = [done |-> TRUE,
                  value |-> skipped_file_path(call.path),
                  again |-> skipped_file_path(call.path)]
    /\ UNCHANGED <<disk, mainv, fetchv, hist, obs_store, call>>

NextSkippedPath == Call_skipped_file_path

SpecSkippedPath == InitSkippedPath /\ [][NextSkippedPath]_vars

\* ----------------------------------------------------- remaining_to_catch alone
\* urls_to_process = [u for u in urls if u not in processed_urls
\*                                     and u not in skipped_urls]
urls_to_process(found, processed, skipped) ==
    {u \in found : u \notin processed /\ u \notin skipped}

\* the limit is left out of the count
remaining_to_catch_NoLimit(limit, found, processed, skipped) ==
    Cardinality(urls_to_process(found, processed, skipped))

\* limit = args.limit if args.limit and args.limit > 0 else None
\* remaining_to_catch = min(limit, len(urls_to_process)) if limit
\*                      else len(urls_to_process)
remaining_to_catch(limit, found, processed, skipped) ==
    LET todo == Cardinality(urls_to_process(found, processed, skipped))
    IN  IF limit > 0
        THEN IF limit <= todo THEN limit ELSE todo
        ELSE todo

\* The count is taken for a --limit from -1 to MaxLimit, a collection of at
\* most MaxCandidates rows, and index and ledger sets over MaxCandidates
\* URLs.
MaxLimit == 2

MaxCandidates == 3

Candidates == 1..MaxCandidates

InitRemaining ==
    /\ Idle
    /\ Empty
    /\ call \in [limit : -1..MaxLimit, rows : 0..MaxCandidates,
                  urls : SUBSET Candidates, processed_urls : SUBSET Candidates,
                  skipped_urls : SUBSET Candidates]
    /\ result = NotRead

Call_remaining_to_catch ==
    /\ ~result.done
    /\ result' = [done |-> TRUE,
                  value |-> remaining_to_catch(call.limit, call.urls,
                                call.processed_urls, call.skipped_urls)]
    /\ UNCHANGED <<disk, mainv, fetchv, hist, obs_store, call>>

NextRemaining == Call_remaining_to_catch

SpecRemaining == InitRemaining /\ [][NextRemaining]_vars

\* ------------------------------------------------------------ AdventureLog alone
\* The counters of an AdventureLog, with its quiet and verbose settings, and
\* whether the last operation printed a line.
NewLog(quiet, verbose) ==
    [quiet |-> quiet, verbose |-> verbose, new_catches |-> 0, skipped |-> 0,
     cache_hits |-> 0, cache_misses |-> 0, errors |-> 0, printed |-> FALSE]

\* self.skipped is counted only when the line is printed
AdventureLog_skip_WhenPrinted(self) ==
    IF self.quiet THEN [self EXCEPT !.printed = FALSE]
    ELSE [self EXCEPT !.skipped = @ + 1, !.printed = self.verbose >= 1]

AdventureLog_info(self, level) ==
    [self EXCEPT !.printed = ~self.quiet /\ self.verbose >= level]

AdventureLog_debug(self) == [self EXCEPT !.printed = ~self.quiet /\ self.verbose >= 2]

AdventureLog_step(self) == [self EXCEPT !.printed = ~self.quiet]

AdventureLog_catch(self) == [self EXCEPT !.new_catches = @ + 1, !.printed = ~self.quiet]

AdventureLog_skip(self) ==
    [self EXCEPT !.skipped = @ + 1,
                 !.printed = ~self.quiet /\ self.verbose >= 1]

AdventureLog_cache_hit(self) ==
    [self EXCEPT !.cache_hits = @ + 1,
                 !.printed = ~self.quiet /\ self.verbose >= 2]

AdventureLog_cache_miss(self) ==
    [self EXCEPT !.cache_misses = @ + 1,
                 !.printed = ~self.quiet /\ self.verbose >= 1]

AdventureLog_error(self) == [self EXCEPT !.errors = @ + 1, !.printed = TRUE]

AdventureLog_warn(self) == [self EXCEPT !.printed = TRUE]

\* At most MaxCalls operations are applied to a new AdventureLog.
MaxCalls == 3

LogOps == {"info", "debug", "step", "catch", "skip", "cache_hit",
           "cache_miss", "error", "warn"}

InitLog ==
    /\ Idle
    /\ Empty
    /\ \E quiet \in BOOLEAN, verbose \in 0..2 :
          /\ result = NewLog(quiet, verbose)
          /\ call = [op |-> "new", calls |-> 0,
                     before |-> NewLog(quiet, verbose)]

Applied(op, after) ==
    /\ call.calls < MaxCalls
    /\ call' = [op |-> op, calls |-> call.calls + 1, before |-> result]
    /\ result' = after
    /\ UNCHANGED <<disk, mainv, fetchv, hist, obs_store>>

Call_info == \E level \in 0..2 : Applied("info", AdventureLog_info(result, level))

Call_debug == Applied("debug", AdventureLog_debug(result))

Call_step == Applied("step", AdventureLog_step(result))

Call_catch == Applied("catch", AdventureLog_catch(result))

Call_skip == Applied("skip", AdventureLog_skip(result))

Call_cache_hit == Applied("cache_hit", AdventureLog_cache_hit(result))

Call_cache_miss == Applied("cache_miss", AdventureLog_cache_miss(result))

Call_error == Applied("error", AdventureLog_error(result))

Call_warn == Applied("warn", AdventureLog_warn(result))

NextLog ==
    \/ Call_info
    \/ Call_debug
    \/ Call_step
    \/ Call_catch
    \/ Call_skip
    \/ Call_cache_hit
    \/ Call_cache_miss
    \/ Call_error
    \/ Call_warn

SpecLog == InitLog /\ [][NextLog]_vars

\* ------------------------------------------------------------- cache_path alone
\* SHA-1 of a message of at most 55 bytes, which fits in one block.
\* A 32-bit word is the pair of its 16-bit halves.
RECURSIVE Xor8(_, _, _)
Xor8(a, b, n) ==
    IF n = 0 THEN 0
    ELSE ((a + b) % 2) + 2 * Xor8(a \div 2, b \div 2, n - 1)

RECURSIVE And8(_, _, _)
And8(a, b, n) ==
    IF n = 0 THEN 0
    ELSE ((a % 2) * (b % 2)) + 2 * And8(a \div 2, b \div 2, n - 1)

\* the bitwise operations on bytes, tabulated
XorTable ==
    [a \in 0..255 |-> [b \in 0..255 |-> Xor8(a, b, 8)] @@ << >>] @@ << >>

AndTable ==
    [a \in 0..255 |-> [b \in 0..255 |-> And8(a, b, 8)] @@ << >>] @@ << >>

Xor16(a, b) ==
    256 * XorTable[a \div 256][b \div 256] + XorTable[a % 256][b % 256]

And16(a, b) ==
    256 * AndTable[a \div 256][b \div 256] + AndTable[a % 256][b % 256]

XorW(a, b) == <<Xor16(a[1], b[1]), Xor16(a[2], b[2])>>
AndW(a, b) == <<And16(a[1], b[1]), And16(a[2], b[2])>>
InvW(a) == <<65535 - a[1], 65535 - a[2]>>
\* a | b = (a ^ b) + (a & b)
OrW(a, b) == <<Xor16(a[1], b[1]) + And16(a[1], b[1]),
               Xor16(a[2], b[2]) + And16(a[2], b[2])>>

Rotl(a, n) ==
    LET x == IF n < 16 THEN a ELSE <<a[2], a[1]>>
        k == n % 16
    IN  <<(x[1] % (2 ^ (16 - k))) * (2 ^ k) + (x[2] \div (2 ^ (16 - k))),
          (x[2] % (2 ^ (16 - k))) * (2 ^ k) + (x[1] \div (2 ^ (16 - k)))>>

RECURSIVE SumHi(_)
SumHi(ws) == IF ws = << >> THEN 0 ELSE Head(ws)[1] + SumHi(Tail(ws))
RECURSIVE SumLo(_)
SumLo(ws) == IF ws = << >> THEN 0 ELSE Head(ws)[2] + SumLo(Tail(ws))

\* the sum of the words modulo 2^32
AddW(ws) ==
    LET lo == SumLo(ws)
        hi == SumHi(ws) + (lo \div 65536)
    IN  <<hi % 65536, lo % 65536>>

Word(hi, lo) == <<hi, lo>>

\* one block: the message, 0x80, zeros, and the length in bits on 64 bits
ShaPad(msg) ==
    msg \o <<128>> \o [i \in 1..(55 - Len(msg)) |-> 0]
        \o <<0, 0, 0, 0, 0, 0>>
        \o <<(8 * Len(msg)) \div 256, (8 * Len(msg)) % 256>>

ShaBlock(msg) ==
    LET bytes == ShaPad(msg)
    IN  [t \in 1..16 |->
            <<256 * bytes[4 * t - 3] + bytes[4 * t - 2],
              256 * bytes[4 * t - 1] + bytes[4 * t]>>]

RECURSIVE ShaSchedule(_)
ShaSchedule(w) ==
    IF Len(w) = 80 THEN w
    ELSE LET t == Len(w) + 1
             x == XorW(XorW(w[t - 3], w[t - 8]), XorW(w[t - 14], w[t - 16]))
         IN  ShaSchedule(Append(w, Rotl(x, 1)))

ShaF(t, b, c, d) ==
    IF t < 20 THEN OrW(AndW(b, c), AndW(InvW(b), d))
    ELSE IF t < 40 THEN XorW(XorW(b, c), d)
    ELSE IF t < 60 THEN OrW(OrW(AndW(b, c), AndW(b, d)), AndW(c, d))
    ELSE XorW(XorW(b, c), d)

ShaK(t) ==
    IF t < 20 THEN Word(23170, 31129)
    ELSE IF t < 40 THEN Word(28377, 60321)
    ELSE IF t < 60 THEN Word(36635, 48348)
    ELSE Word(51810, 49622)

ShaH0 == <<Word(26437, 8961), Word(61389, 43913), Word(39098, 56574),
        Word(4146, 21622), Word(50130, 57840)>>

ShaRound(t, h, w) ==
    <<AddW(<<Rotl(h[1], 5), ShaF(t, h[2], h[3], h[4]), h[5], ShaK(t), w[t + 1]>>),
      h[1], Rotl(h[2], 30), h[3], h[4]>>

\* rounds lo .. hi - 1, by halves
RECURSIVE ShaRounds(_, _, _, _)
ShaRounds(lo, hi, h, w) ==
    IF hi = lo + 1 THEN ShaRound(lo, h, w)
    ELSE LET mid == (lo + hi) \div 2
         IN  CHOOSE r \in {ShaRounds(mid, hi, n, w) :
                               n \in {ShaRounds(lo, mid, h, w)}} : TRUE

ShaDigest(msg) ==
    LET w == ShaSchedule(ShaBlock(msg))
        h == ShaRounds(0, 80, ShaH0, w)
    IN  [i \in 1..5 |-> AddW(<<ShaH0[i], h[i]>>)]

HexDigits == <<"0", "1", "2", "3", "4", "5", "6", "7", "8", "9",
               "a", "b", "c", "d", "e", "f">>

\* the hexadecimal digits of the five words, eight for each
hexdigest(words) ==
    [i \in 1..40 |->
        LET half == words[((i - 1) \div 8) + 1][(((i - 1) % 8) \div 4) + 1]
        IN  HexDigits[((half \div (16 ^ (3 - ((i - 1) % 4)))) % 16) + 1]]

\* a digest of the first byte alone
_sha1_FirstByte(s) ==
    hexdigest(ShaDigest(IF s = << >> THEN s ELSE <<s[1]>>))

\* hashlib.sha1(s.encode("utf-8")).hexdigest(); a string is the sequence of
\* the codes of its characters, all of them ASCII
_sha1(s) == hexdigest(ShaDigest(s))

\* os.path.join(cache_dir, f"{_sha1(url)}.html")
cache_path(cache_dir, url) ==
    [dir |-> cache_dir, name |-> _sha1(url) \o <<".", "h", "t", "m", "l">>]

\* cache_path is applied to two URLs of at most MaxUrlLen characters, and
\* once more to the first.
MaxUrlLen == 2

UrlChars == {47, 97, 98}

UrlStrings == UNION {[1..n -> UrlChars] : n \in 0..MaxUrlLen}

InitCachePath ==
    /\ Idle
    /\ Empty
    /\ call \in [cache_dir : {"cache"}, url : UrlStrings, other : UrlStrings]
    /\ result = NotRead

Call_cache_path ==
    /\ ~result.done
    /\ result' = [done |-> TRUE,
                  sha1 |-> _sha1(call.url),
                  path |-> cache_path(call.cache_dir, call.url),
                  again |-> cache_path(call.cache_dir, call.url),
                  other |-> cache_path(call.cache_dir, call.other)]
    /\ UNCHANGED <<disk, mainv, fetchv, hist, obs_store, call>>

NextCachePath == Call_cache_path

SpecCachePath == InitCachePath /\ [][NextCachePath]_vars

\* ------------------------------------------------------- _build_table_body alone
\* A text is the sequence of its characters; None is a text of its own.
None == <<"None">>

\* _table_config: columns ("Fav" stands for the heart), html_columns
table_columns ==
    <<"Fav", "Own", "Image", "Name", "Type", "Color", "Squad", "Size(s)",
      "Collector Number", "Year", "Bio", "Page">>

html_columns == {"Image", "Page"}

\* html.escape(s, quote=False): the quotes are left as they are
escape_NoQuote(s) ==
    LET entity(ch) ==
            CASE ch = "&" -> <<"&", "a", "m", "p", ";">>
              [] ch = "<" -> <<"&", "l", "t", ";">>
              [] ch = ">" -> <<"&", "g", "t", ";">>
              [] OTHER -> <<ch>>
        conv[k \in 0..Len(s)] ==
            IF k = 0 THEN << >> ELSE conv[k - 1] \o entity(s[k])
    IN  conv[Len(s)]

\* html.escape(s): & < > " ' are replaced by their entities
escape(s) ==
    LET entity(ch) ==
            CASE ch = "&" -> <<"&", "a", "m", "p", ";">>
              [] ch = "<" -> <<"&", "l", "t", ";">>
              [] ch = ">" -> <<"&", "g", "t", ";">>
              [] ch = "\"" -> <<"&", "q", "u", "o", "t", ";">>
              [] ch = "'" -> <<"&", "#", "x", "2", "7", ";">>
              [] OTHER -> <<ch>>
        conv[k \in 0..Len(s)] ==
            IF k = 0 THEN << >> ELSE conv[k - 1] \o entity(s[k])
    IN  conv[Len(s)]

\* s.encode("utf-8") for the characters of the values
Utf8(s) ==
    [k \in 1..Len(s) |->
        CASE s[k] = "&" -> 38
          [] s[k] = "<" -> 60
          [] s[k] = "\"" -> 34
          [] OTHER -> 97]

\* row.get(col) or "": a missing key, None and "" give ""
Get(row, col) ==
    IF col \in DOMAIN row /\ row[col] # None THEN row[col] ELSE << >>

\* the cells of the row, one for each column, and the id of the row
table_row(row) ==
    LET key == IF Get(row, "URL") # << >> THEN Get(row, "URL")
               ELSE Get(row, "Name")
        row_id == SubSeq(_sha1(Utf8(key)), 1, 12)
    IN  [data_id |-> row_id,
         cells |->
            [i \in 1..Len(table_columns) |->
                LET col == table_columns[i]
                IN  IF col = "Fav"
                    THEN [tag |-> "button", data_id |-> row_id,
                          inner |-> << >>]
                    ELSE IF col = "Own"
                    THEN [tag |-> "input", data_id |-> row_id,
                          inner |-> << >>]
                    ELSE [tag |-> "text", data_id |-> << >>,
                          inner |-> IF col \notin html_columns
                                    THEN escape(Get(row, col))
                                    ELSE Get(row, col)]]]

_build_table_body(rs) == [k \in 1..Len(rs) |-> table_row(rs[k])]

\* _build_table_body is given one row: a key of the row holds a text of at
\* most MaxValueLen characters or None, each other key the same filler.
MaxValueLen == 2

ValueChars == {"&", "<", "\"", "a"}

Values == UNION {[1..n -> ValueChars] : n \in 0..MaxValueLen}

RowKeys == (Range(table_columns) \ {"Fav", "Own"}) \cup {"URL"}

InitTable ==
    /\ Idle
    /\ Empty
    /\ \E key \in RowKeys, v \in Values \cup {None},
          filler \in {None, <<"a", "<">>} :
          call = [rows |-> <<[k \in RowKeys |->
                                 IF k = key THEN v ELSE filler]>>]
    /\ result = NotRead

Call_build_table_body ==
    /\ ~result.done
    /\ result' = [done |-> TRUE, value |-> _build_table_body(call.rows)]
    /\ UNCHANGED <<disk, mainv, fetchv, hist, obs_store, call>>

NextTable == Call_build_table_body

SpecTable == InitTable /\ [][NextTable]_vars

\* ------------------------------------------- parse_squish_page: fields and extras
\* The infobox is the list of its (label, value) pairs in document order,
\* each label once; a value is a text, never empty.
wanted == <<"Type", "Color", "Squad", "Size(s)", "Collector Number", "Year">>

\* info.get(k)
dict_get(info, k) ==
    IF \E i \in 1..Len(info) : info[i][1] = k
    THEN info[CHOOSE i \in 1..Len(info) : info[i][1] = k][2]
    ELSE None

\* a string literal without the backslashes
json_string_Raw(v) == <<"\"">> \o v \o <<"\"">>

\* json.dumps of a string: quotes around it, a backslash before each quote
\* and each backslash
json_string(v) ==
    LET conv[k \in 0..Len(v)] ==
            IF k = 0 THEN << >>
            ELSE conv[k - 1] \o (IF v[k] \in {"\"", "\\"} THEN <<"\\", v[k]>>
                                 ELSE <<v[k]>>)
    IN  <<"\"">> \o conv[Len(v)] \o <<"\"">>

\* json.dumps of a dict of strings, as the sequence of its tokens; a key is
\* one token
json_dumps(items) ==
    LET conv[k \in 0..Len(items)] ==
            IF k = 0 THEN << >>
            ELSE conv[k - 1] \o (IF k = 1 THEN << >> ELSE <<",">>)
                     \o <<items[k][1], ":">> \o json_string(items[k][2])
    IN  <<"{">> \o conv[Len(items)] \o <<"}">>

\* the part of the row that parse_squish_page takes from the infobox
infobox_fields(info) ==
    LET extras == SelectSeq(info, LAMBDA item : item[1] \notin Range(wanted))
    IN  [k \in Range(wanted) \cup {"Extra"} |->
            IF k = "Extra"
            THEN (IF extras # << >> THEN json_dumps(extras) ELSE None)
            ELSE dict_get(info, k)]

\* The infobox has some of the labels Type, Year and Height, in any order,
\* with values of at most MaxInfoLen characters.
MaxInfoLen == 1

InfoLabels == {"Type", "Year", "Height"}

InfoValues == UNION {[1..n -> {"a", "\"", "\\"}] : n \in 1..MaxInfoLen}

Infoboxes ==
    {info \in UNION {[1..n -> InfoLabels \X InfoValues] :
                        n \in 0..Cardinality(InfoLabels)} :
        \A i, j \in 1..Len(info) : i # j => info[i][1] # info[j][1]}

InitFields ==
    /\ Idle
    /\ Empty
    /\ call \in [info : Infoboxes]
    /\ result = NotRead

Call_infobox_fields ==
    /\ ~result.done
    /\ result' = [done |-> TRUE, value |-> infobox_fields(call.info)]
    /\ UNCHANGED <<disk, mainv, fetchv, hist, obs_store, call>>

NextFields == Call_infobox_fields

SpecFields == InitFields /\ [][NextFields]_vars

\* --------------------------------------------- section_text_after_heading alone
\* A sibling of the heading is its tag and the length of its text
\* (" ".join(sib.stripped_strings)); "h2" is a heading with a headline.  A
\* text is known by its length; None is the length -1.
NoText == -1

RECURSIVE Sum(_)
Sum(parts) == IF parts = << >> THEN 0 ELSE Head(parts) + Sum(Tail(parts))

\* for sib in heading.find_next_siblings(): ... ; the parts collected
RECURSIVE collect(_, _, _)
collect(siblings, parts, max_chars) ==
    IF siblings = << >> THEN parts
    ELSE LET sib == Head(siblings)
             added == IF sib.name \in {"p", "blockquote", "ul", "ol", "div"}
                         /\ sib.len > 0
                      THEN Append(parts, sib.len)
                      ELSE parts
         IN  IF sib.name = "h2" THEN parts
             ELSE IF Sum(added) > max_chars THEN added
             ELSE collect(Tail(siblings), added, max_chars)

\* text = " ".join(parts).strip(); return text or None
section_text_after_heading(siblings, max_chars) ==
    LET parts == collect(siblings, << >>, max_chars)
    IN  IF parts = << >> THEN NoText
        ELSE Sum(parts) + (Len(parts) - 1)

\* The heading is followed by at most MaxSiblings siblings with texts of
\* at most MaxBlockLen characters, and max_chars is at most MaxChars.
MaxSiblings == 3

MaxBlockLen == 3

MaxChars == 2

Siblings ==
    [name : {"p"}, len : 0..MaxBlockLen]
        \cup [name : {"h2", "table"}, len : {1}]

InitBio ==
    /\ Idle
    /\ Empty
    /\ call \in [siblings : UNION {[1..n -> Siblings] : n \in 0..MaxSiblings},
                 max_chars : 1..MaxChars]
    /\ result = NotRead

Call_section_text_after_heading ==
    /\ ~result.done
    /\ result' = [done |-> TRUE,
                  value |-> section_text_after_heading(call.siblings,
                                                       call.max_chars)]
    /\ UNCHANGED <<disk, mainv, fetchv, hist, obs_store, call>>

NextBio == Call_section_text_after_heading

SpecBio == InitBio /\ [][NextBio]_vars

\* ------------------------------------------------------------- the CSV file alone
\* write_csv is given at most MaxRows rows, with or without an image and
\* with or without a key that is not a column, and read_existing_csv reads
\* the file.
MaxRows == 2

CsvRows ==
    {parse_squish_page(html, url) : html \in {"char", "bare"}, url \in Leaf}
    \cup
    {[Name |-> PageName(html), URL |-> url, ImageURL |-> PageImage(html, url),
      Squishdate |-> "2020"] : html \in {"char", "bare"}, url \in Leaf}

InitCsv ==
    /\ Idle
    /\ Empty
    /\ call \in UNION {[1..n -> CsvRows] : n \in 0..MaxRows}
    /\ result = NotRead

Call_write_csv ==
    /\ ~csv_file.exists
    /\ csv_file' = write_csv(call)
    /\ result' = NotRead
    /\ UNCHANGED <<cache, ledger, images, mainv, fetchv, hist, obs_store,
                   call>>

Call_read_existing_csv ==
    /\ ~result.done
    /\ result' = [done |-> TRUE, value |-> read_existing_csv(csv_file)]
    /\ UNCHANGED <<disk, mainv, fetchv, hist, obs_store, call>>

NextCsv == Call_write_csv \/ Call_read_existing_csv

SpecCsv == InitCsv /\ [][NextCsv]_vars


\* ============================================================= claims
AcceptPcs == {"acc_rows", "acc_add", "acc_append", "acc_count", "acc_catch"}
RejectPcs == {"skip_log", "skip_add", "skip_append"}
JustEnumerated == pc = "loop" /\ idx = 0

C3_KnownNeverFetched ==
    ~args.rebuild =>
        /\ fetched \cap start_known = {}
        /\ pc \in {"fetch"} \cup AcceptPcs \cup RejectPcs =>
              urls[idx] \notin start_known

\* Processed holds one URL of the index, Rejected the other one, when the
\* loop starts, and the loop comes to its end without a fetch
C3_Witness ==
    /\ ~args.rebuild
    /\ ~args.dry_run
    /\ pc = "final_build"
    /\ interrupted = "no"
    /\ idx = Len(urls)
    /\ Range(urls) \subseteq start_known
    /\ read_progress(skipped_file) \cap Range(urls) # {}
    /\ read_progress(progress_file) \cap Range(urls) # {}
    /\ fetched = {}

\* C4: no URL is in Processed and in Rejected, in the sets of main() and in
\* the two progress files.
C4_LedgerDisjoint ==
    /\ processed_urls \cap skipped_urls = {}
    /\ read_progress(progress_file) \cap read_progress(skipped_file) = {}

\* C5: a run (not a dry run) whose loop was left by the KeyboardInterrupt
\* handler comes to
\* its end with a CSV that holds the rows it started with and one row for
\* each of the N entries caught (log.new_catches), and Processed (set and
\* file) has grown by exactly their URLs; every row has a name.
NewRows == SubSeq(rows, existing_count + 1, Len(rows))

C5_CheckpointOnInterrupt ==
    (pc \in {"done", "aborted"} /\ interrupted = "caught" /\ ~args.dry_run) =>
        /\ pc = "done"
        /\ csv_file = write_csv(rows)
        /\ Len(NewRows) = log.new_catches
        /\ processed_urls \ start_known = RowURLs(NewRows)
        /\ read_progress(progress_file) \ start_known = RowURLs(NewRows)
        /\ \A k \in 1..Len(rows) : rows[k].Name # << >>

\* C6: a run that is past the enumeration and is not a dry run has written
\* the CSV from its rows when it is over (stated for the runs in which no
\* KeyboardInterrupt arrives outside the try statement of the loop).
C6_FinalCheckpoint ==
    (pc \in {"done", "aborted"} /\ enumerated /\ ~args.dry_run
        /\ interrupted # "escaped") =>
        /\ final_saved
        /\ csv_file = write_csv(rows)

\* C7: the batch checkpoint starts exactly when collected_in_batch has
\* reached the batch size, so at the head of the loop the count is below it;
\* a rejected or failed URL leaves the count as it was; after the checkpoint
\* the CSV holds all rows, no progress file has unsynced lines and the count
\* is 0.
C7_BatchCheckpoint ==
    ~args.dry_run =>
        /\ pc \in {"batch_build", "batch_write", "batch_sync"} =>
              collected_in_batch = args.batch_size
        /\ pc = "loop" => collected_in_batch < args.batch_size
        /\ mark \in {"rejected", "failed"} => collected_in_batch = snap.collected
        /\ pc = "batch_sleep" =>
              /\ csv_file = write_csv(rows)
              /\ unsynced = {}
              /\ collected_in_batch = 0

\* C8: a call of fetch(url) without refresh that follows a call that
\* returned makes no request and returns the bytes that call returned; a call
\* with refresh that returns has made a request, and the cache file holds
\* the response it returns.
C8_CacheCorrectness ==
    fpc = "ret" =>
        /\ (~args.refresh /\ last_ok[FetchUrl] # NoFile) =>
              (~net /\ page_html = last_ok[FetchUrl])
        /\ args.refresh => (net /\ cache[FetchUrl] = page_html)

\* the second of two calls without refresh returns from the cache
C8_Witness ==
    /\ fpc = "ret"
    /\ ~args.refresh
    /\ last_ok[FetchUrl] # NoFile
    /\ FetchUrl \in Leaf
    /\ page_html = "list"
    /\ ~net

\* C9: when fetch() returns it has slept the delay exactly if it made a
\* request: always after a request, never after a cache hit.
C9_DelayOnlyAfterRequest == fpc = "ret" => (slept <=> net)

\* fetch() returns a leaf page after a request and the delay
C9_Witness ==
    /\ fpc = "ret"
    /\ FetchUrl \in Leaf
    /\ net
    /\ slept

\* C10: no request for a page is sent before the delay has elapsed since
\* the request before it in the same run.
C10_DelayBetweenRequests == ~hasty

\* C11: a request that fails raises to the caller and leaves every cache
\* file as it was; a cache file changes only in the write that follows a
\* request of the same URL that returned a success status.
C11_CacheOnlyAfterSuccess ==
    [][/\ FetchGetFail =>
             /\ cache' = cache
             /\ fpc' = "idle"
             /\ pc' \in {"except", "aborted"}
       /\ \A url \in URLs :
             cache'[url] # cache[url] =>
                 /\ fpc = "write"
                 /\ net
                 /\ url = FetchUrl
                 /\ content \in Responses(url)]_vars

\* a request with --refresh has failed and the cache file of its URL is there
C11_Witness ==
    /\ pc = "except"
    /\ exc = "fetch"
    /\ args.refresh
    /\ cache[urls[idx]] \in Responses(urls[idx])

\* C12: a call of fetch() that returns from the cache returns the complete
\* bytes of a response; a cache file that a cut-short write left is no hit.
C12_NoTornCacheHit ==
    (fpc = "ret" /\ ~net) => page_html \in Responses(FetchUrl)

C14_AcceptedAtMostLimit ==
    /\ args.limit > 0 =>
          /\ log.new_catches <= args.limit
          /\ Len(rows) - existing_count <= args.limit
          /\ pc \in {"fetch", "dry"} => log.new_catches < args.limit
    /\ (pc = "final_build" /\ interrupted = "no" /\ idx < Len(urls)) =>
          (args.limit > 0 /\ log.new_catches = args.limit)
    /\ \A l \in {-1, 0} : \A n \in 0..Cardinality(Leaf) : ~LimitReached(l, n)


\* C15: in a run with --rebuild both sets are empty when the loop starts,
\* so every index URL is picked (a loop without limit that is not cancelled
\* hands every index URL to fetch()); without --refresh a request is sent
\* only for a URL that has no cache file, and a call that sends none returns
\* the bytes of the cache file.
C15_RebuildReclassifies ==
    args.rebuild =>
        /\ JustEnumerated => (processed_urls = {} /\ skipped_urls = {})
        /\ enumerated => start_known = {}
        /\ (~args.dry_run /\ args.limit = 0 /\ pc = "final_build"
               /\ interrupted = "no") =>
              fetched = Range(urls)
        /\ (~args.refresh /\ pc = "fetch") =>
              /\ fpc = "get" => cache[urls[idx]] = NoFile
              /\ (fpc = "ret" /\ ~net) => page_html = cache[urls[idx]]

\* a --rebuild run classifies a cached list page again, without a request
C15_Witness ==
    /\ args.rebuild
    /\ ~args.refresh
    /\ pc = "skip_log"
    /\ ~net
    /\ page_html = "list"
    /\ cache[urls[idx]] = "list"

\* C16: in a run without --rebuild that loaded at least one row and found
\* no progress file, Processed is the set of the URLs of the rows when the
\* loop starts, the progress file (written unless --dry-run) holds each of
\* them on exactly one line and nothing else, and none of them is handed to
\* fetch() in the run.
LoadedRows == SubSeq(rows, 1, existing_count)

C16_ReconstructFromCheckpoint ==
    reconstructed =>
        /\ ~args.rebuild
        /\ JustEnumerated =>
              /\ processed_urls = RowURLs(LoadedRows)
              /\ ~args.dry_run =>
                    /\ progress_file.exists
                    /\ Range(progress_file.lines) = RowURLs(LoadedRows)
                    /\ Len(progress_file.lines) =
                          Cardinality(RowURLs(LoadedRows))
        /\ fetched \cap RowURLs(LoadedRows) = {}

\* the progress has been rebuilt from two rows and the loop is over
C16_Witness ==
    /\ reconstructed
    /\ ~args.dry_run
    /\ existing_count = 2
    /\ pc = "final_build"
    /\ interrupted = "no"
    /\ read_progress(progress_file) = RowURLs(LoadedRows)

\* C17: a failure to write a file (cache file, ledger file, CSV export) ends
\* the run: once the OSError has been raised, main() is either in the
\* handler that received it or over, and the loop never comes back to pick
\* another URL.
C17_StorageFailureFatal ==
    exc = "storage" => pc \in {"except", "aborted"}

\* C18: a rejection is durable. When the loop is about to pick the next URL
\* every URL rejected so far is a line of the rejected ledger file, and a
\* URL that a run has classified as a non-character page is never handed to
\* fetch() again by that run or a later one, until a run with --rebuild.
C18_RejectionDurable ==
    /\ (pc = "loop" /\ ~args.dry_run) =>
          skipped_urls \subseteq read_progress(skipped_file)
    /\ (pc = "fetch" /\ fpc = "check") => urls[idx] \notin rejected_ever

\* C19: a run calls fetch() for the index page once, at its start, through
\* the cache that leaf pages use, and hands no leaf URL to fetch() (or to the
\* dry-run branch) before the index is parsed; when the index fetch does not
\* return, main() ends there: no leaf page has been fetched, no save is
\* made, and the ledger files, the CSV and the images stay as they were.
C19_IndexFirstAndOnce ==
    /\ [](/\ pc = "index" =>
               (~enumerated /\ fetched = {} /\ idx = 0 /\ FetchUrl = MASTER_LIST)
          /\ pc \in {"fetch", "dry"} => (enumerated /\ FetchUrl \in Leaf)
          /\ fetched # {} => enumerated
          /\ (pc = "aborted" /\ ~enumerated) => (fetched = {} /\ ~final_saved)
          /\ (pc = "index" /\ fpc = "ret") => page_html = cache[MASTER_LIST])
    /\ [][/\ (pc' = "index" /\ fpc' = "check") =>
                (RunOver /\ runs' = runs + 1)
          /\ (enumerated' /\ ~enumerated) =>
                (pc = "index" /\ fpc = "ret" /\ pc' = "loop")
          /\ (pc = "index" /\ pc' \notin {"index", "loop"}) =>
                /\ pc' = "aborted"
                /\ UNCHANGED <<progress_file, skipped_file, csv_file, images>>
          /\ (pc = "aborted" /\ ~enumerated /\ pc' # "index") =>
                UNCHANGED <<progress_file, skipped_file, csv_file, images>>]_vars

\* the request for the index page has failed in a run that found a CSV and
\* a ledger file on the disk
C19_Witness ==
    /\ pc = "aborted"
    /\ exc = "fetch"
    /\ ~enumerated
    /\ csv_file.exists
    /\ progress_file.exists

\* C20: is_character_page(name, info) returns True exactly if the name is
\* not empty, no denylisted title (Master List, Main Page, All Pages,
\* Squishville, Roblox) occurs in it as whole words in whatever case, and
\* info has one of the six allow-listed keys; so a page with none of these
\* keys is rejected whatever its name, and a page with a denylisted title in
\* its name is rejected whatever its keys.
C20_Denylisted(name) ==
    \E i \in 1..Len(name) :
        \/ name[i] \in {"Squishville", "ROBLOX"}
        \/ /\ i < Len(name)
           /\ \/ name[i] \in {"Master", "master"} /\ name[i + 1] = "List"
              \/ name[i] = "Main" /\ name[i + 1] = "Page"
              \/ name[i] = "All" /\ name[i + 1] = "Pages"

C20_AllowListed(info) ==
    \E k \in {"Type", "Color", "Squad", "Size(s)", "Collector Number", "Year"} :
        k \in info

C20_ClassifierIff ==
    result # "unset" =>
        /\ result = "True" <=>
              /\ call.name # << >>
              /\ ~C20_Denylisted(call.name)
              /\ C20_AllowListed(call.info)
        /\ ~C20_AllowListed(call.info) => result = "False"
        /\ C20_Denylisted(call.name) => result = "False"

\* a name that holds a denylisted title in another case, with an
\* allow-listed key, has been rejected
C20_Witness ==
    /\ result = "False"
    /\ call.name = <<"fifi", "master", "List">>
    /\ "Type" \in call.info

\* C21: every row that the loop has appended, and every row of the CSV, has
\* a name that is not empty and the URL of a page of the index; a page
\* without a name goes down the reject branch and leaves no row.
C21_StoredRowsNamed ==
    /\ \A k \in 1..Len(rows) : rows[k].Name # << >> /\ rows[k].URL \in Leaf
    /\ \A k \in 1..Len(csv_file.lines) :
          csv_file.lines[k].Name # << >> /\ csv_file.lines[k].URL \in Leaf
    /\ (pc \in AcceptPcs \cup {"acc_rows"}) => PageName(page_html) # << >>

\* a run that started with no row has rejected the page without a name and
\* written the row of the other page to the CSV
C21_Witness ==
    /\ existing_count = 0
    /\ cache[2] = "anon"
    /\ 2 \in skipped_urls
    /\ Len(rows) = 1
    /\ csv_file.lines = write_csv(rows).lines
    /\ pc = "done"

\* C22: read_progress of a ledger file that did not exist before the calls
\* of append_progress returns exactly the set of the URLs appended (the
\* empty set while the file does not exist), so that appending a URL once
\* more changes neither the set nor its size.
C22_ReadReturnsAppended ==
    (result.done /\ call.file = Absent) =>
        /\ result.value = Range(call.appended)
        /\ ~progress_file.exists => result.value = {}

\* C23: loading a ledger file skips a line that is not a URL, such as the
\* first part of a URL left by a torn write, and loads every other line:
\* the set returned holds no torn line and holds every URL of the file.
C23_TornLineSkipped ==
    result.done =>
        /\ \A l \in result.value : l < Torn
        /\ \A l \in Range(progress_file.lines) :
              (l >= 0 /\ l < Padded) => l \in result.value

\* C24: a dry run leaves the two ledger files and the CSV as it found them,
\* whatever the other flags are, and its loop leaves the sets of processed
\* and skipped URLs as they were enumerated.
C24_DryRunWritesNoFile ==
    [][args'.dry_run =>
          /\ UNCHANGED <<progress_file, skipped_file, csv_file>>
          /\ (enumerated /\ enumerated') =>
                UNCHANGED <<processed_urls, skipped_urls>>]_vars

\* C25: in a dry run no request is sent, for a page or for an image, and
\* no file of the cache is written.
C25_DryRunOffline ==
    /\ [](args.dry_run => (~net /\ fpc \notin {"write", "sleep"}))
    /\ [][args'.dry_run => (cache' = cache /\ images' = images)]_vars

\* C26: when a run that is not a dry run ends, its counts say what it did:
\* new_catches is the number of rows appended, skipped the number of URLs
\* added to the skipped set, and (in a run that was not cancelled) errors
\* the number of URLs handed to fetch() that are in neither set.
C26_CountsMatch ==
    (pc = "done" /\ ~args.dry_run) =>
        /\ log.new_catches = Len(rows) - existing_count
        /\ log.skipped = Cardinality(skipped_urls \ start_known)
        /\ interrupted = "no" =>
              log.errors =
                  Cardinality(fetched \ (processed_urls \cup skipped_urls))

C28_CachePathInjective ==
    result.done =>
        /\ result.again = result.path
        /\ (result.other = result.path) <=> (call.other = call.url)
        /\ result.path.dir = call.cache_dir
        /\ result.path.name = result.sha1 \o <<".", "h", "t", "m", "l">>
        /\ Len(result.sha1) = 40
        /\ \A i \in 1..Len(result.sha1) :
              result.sha1[i] \in {"0", "1", "2", "3", "4", "5", "6", "7", "8",
                                  "9", "a", "b", "c", "d", "e", "f"}

\* the digest of "ab" has been computed, and the path of "aa" as well
C28_Witness ==
    /\ result.done
    /\ call.url = <<97, 98>>
    /\ call.other = <<97, 97>>
    /\ SubSeq(result.sha1, 1, 8) = <<"d", "a", "2", "3", "6", "1", "4", "e">>

\* C29: skipped_file_path(p) is p cut before its extension, then "_skipped",
\* then the extension, or ".txt" when p has none.  The extension is what
\* follows, dot included, the last dot of the last component of p, provided
\* a character other than a dot precedes that dot in the component.  The
\* directory part is kept, a second call gives the same path, and the path
\* is never p itself.
C29_SkippedPathDerived ==
    result.done =>
        LET p == call.path
            r == result.value
            n == Len(p)
            dir(x) == SubSeq(x, 1, rfind(x, "/"))
            IsExt(k) ==
                /\ p[k] = "."
                /\ \A i \in (k + 1)..n : p[i] \notin {".", "/"}
                /\ \E i \in 1..(k - 1) :
                      /\ p[i] # "."
                      /\ \A j \in i..(k - 1) : p[j] # "/"
            suffix == <<"_", "s", "k", "i", "p", "p", "e", "d">>
        IN  /\ result.again = r
            /\ r # p
            /\ dir(r) = dir(p)
            /\ \A k \in 1..n :
                  IsExt(k) =>
                      r = SubSeq(p, 1, k - 1) \o suffix \o SubSeq(p, k, n)
            /\ (\A k \in 1..n : ~IsExt(k)) =>
                  r = p \o suffix \o <<".", "t", "x", "t">>

\* the path of "./p.p" has been derived: "./p_skipped.p"
C29_Witness ==
    /\ result.done
    /\ call.path = <<".", "/", "p", ".">>
    /\ result.value =
           <<".", "/", "p", "_", "s", "k", "i", "p", "p", "e", "d", ".">>

C31_CountersFramed ==
    LET Counters == {"new_catches", "skipped", "cache_hits", "cache_misses",
                     "errors"}
        Own == [catch |-> "new_catches", skip |-> "skipped",
                cache_hit |-> "cache_hits", cache_miss |-> "cache_misses",
                error |-> "errors"]
    IN  call.op \in LogOps =>
            \A c \in Counters :
                result[c] = call.before[c]
                    + (IF call.op \in DOMAIN Own /\ Own[call.op] = c
                       THEN 1 ELSE 0)

\* a quiet log has counted a skip after a catch, and printed nothing
C31_Witness ==
    /\ call.op = "skip"
    /\ result.quiet
    /\ ~result.printed
    /\ result.skipped = 1
    /\ result.new_catches = 1

\* C32: in the table body the cell of every column other than Image and
\* Page (and the favourite and own controls) holds the escaped form of the
\* row value: no <, >, " or ' is left in it, every & in it starts one of
\* the five entities, and replacing the entities by their characters gives
\* the value back (the empty text for None).  The cells of Image and Page
\* hold the row value as it is.
C32_TextCellsEscaped ==
    result.done =>
        \A r \in 1..Len(call.rows) :
            \A i \in 1..Len(table_columns) :
                LET col == table_columns[i]
                    cell == result.value[r].cells[i].inner
                    val == IF call.rows[r][col] = None THEN << >>
                           ELSE call.rows[r][col]
                    Entities ==
                        {<<<<"&", "a", "m", "p", ";">>, "&">>,
                         <<<<"&", "l", "t", ";">>, "<">>,
                         <<<<"&", "g", "t", ";">>, ">">>,
                         <<<<"&", "q", "u", "o", "t", ";">>, "\"">>,
                         <<<<"&", "#", "x", "2", "7", ";">>, "'">>}
                    At(k) ==
                        {e \in Entities :
                            /\ k + Len(e[1]) - 1 <= Len(cell)
                            /\ SubSeq(cell, k, k + Len(e[1]) - 1) = e[1]}
                    unescape[k \in 1..(Len(cell) + 1)] ==
                        IF k > Len(cell) THEN << >>
                        ELSE IF At(k) # {}
                        THEN LET e == CHOOSE x \in At(k) : TRUE
                             IN  <<e[2]>> \o unescape[k + Len(e[1])]
                        ELSE <<cell[k]>> \o unescape[k + 1]
                IN  col \notin {"Fav", "Own"} =>
                        IF col \in {"Image", "Page"}
                        THEN cell = val
                        ELSE /\ \A k \in 1..Len(cell) :
                                  /\ cell[k] \notin {"<", ">", "\"", "'"}
                                  /\ cell[k] = "&" => At(k) # {}
                             /\ unescape[1] = val

\* the Name "<" followed by a quote has been rendered
C32_Witness ==
    /\ result.done
    /\ call.rows[1]["Name"] = <<"<", "\"">>
    /\ call.rows[1]["Bio"] = <<"a", "<">>
    /\ result.value[1].cells[4].inner =
           <<"&", "l", "t", ";", "&", "q", "u", "o", "t", ";">>

\* C33: the URLs of a run are the links of the index page that fetch()
\* returned to the run, in the order of their first occurrence, each once and without the list pages; the loop
\* picks them in that order, so the URLs handed to fetch() so far stand
\* before the current position, and a URL that is handed to fetch() has not
\* been handed to it before in the run.
C33_EnumerationOrder ==
    /\ [](enumerated =>
            LET h == Hrefs(last_ok[MASTER_LIST])
                First(u) == CHOOSE k \in 1..Len(h) :
                                h[k] = u /\ \A j \in 1..(k - 1) : h[j] # u
            IN  /\ Range(urls) = {u \in Range(h) : ~NOISY_PAGES(u)}
                /\ \A i, j \in 1..Len(urls) :
                      i < j => First(urls[i]) < First(urls[j])
                /\ fetched \subseteq {urls[j] : j \in 1..idx})
    /\ [][(pc' \in {"fetch", "dry"} /\ pc = "loop") =>
              /\ idx' = idx + 1
              /\ urls' = urls
              /\ urls[idx'] \notin fetched
              /\ \A j \in 1..idx : urls[j] # urls[idx']]_vars

\* both leaf pages have been handed to fetch(), the second after the first
C33_Witness ==
    /\ pc = "fetch"
    /\ idx = 2
    /\ urls = <<1, 2>>
    /\ fetched = {1, 2}
    /\ failed # {}

\* C34: the named fields that hold a value and the members of the Extra
\* object share no key, together they have exactly the labels of the
\* infobox, and each holds the value the infobox has for its label; Extra
\* is None exactly when every label is a named field.
C34_FieldsPartitionInfobox ==
    result.done =>
        LET info == call.info
            row == result.value
            t == row["Extra"]
            named == {k \in DOMAIN row \ {"Extra"} : row[k] # None}
            n == Len(t)
            at(j) == IF j <= n THEN t[j] ELSE "}"
            close[j \in 1..(n + 2)] ==
                IF j > n THEN j
                ELSE IF t[j] = "\\" THEN close[j + 2]
                ELSE IF t[j] = "\"" THEN j
                ELSE close[j + 1]
            text[j \in 1..(n + 2)] ==
                IF j > n \/ at(j) = "\"" THEN << >>
                ELSE IF t[j] = "\\" THEN <<at(j + 1)>> \o text[j + 2]
                ELSE <<t[j]>> \o text[j + 1]
            members[k \in 1..(n + 4)] ==
                IF at(k) = "}" \/ k + 3 > n THEN {}
                ELSE LET e == close[k + 3]
                     IN  {<<t[k], text[k + 3]>>}
                             \cup members[IF at(e + 1) = "," THEN e + 2
                                          ELSE e + 1]
            extra == IF t = None THEN {} ELSE members[2]
        IN  /\ \A m \in extra : m[1] \notin named
            /\ {m[1] : m \in extra} \cup named = {item[1] : item \in Range(info)}
            /\ \A item \in Range(info) :
                  IF item[1] \in named THEN row[item[1]] = item[2]
                  ELSE item \in extra
            /\ Cardinality(extra) + Cardinality(named) = Len(info)
            /\ (t = None) <=> (extra = {})

\* Height, with a quote for its value, is in Extra and Type is a field
C34_Witness ==
    /\ result.done
    /\ call.info = <<<<"Height", <<"\"">>>>, <<"Type", <<"a">>>>>>
    /\ result.value["Type"] = <<"a">>
    /\ result.value["Extra"] =
           <<"{", "Height", ":", "\"", "\\", "\"", "\"", "}">>

\* C35: the text returned by section_text_after_heading has at most
\* max_chars characters, and no text of a sibling that stands after the
\* next heading is in it.
C35_BioWithinBudget ==
    result.done =>
        LET sibs == call.siblings
            stop == IF \E i \in 1..Len(sibs) : sibs[i].name = "h2"
                    THEN CHOOSE i \in 1..Len(sibs) :
                             /\ sibs[i].name = "h2"
                             /\ \A j \in 1..(i - 1) : sibs[j].name # "h2"
                    ELSE Len(sibs) + 1
            kept == SelectSeq(SubSeq(sibs, 1, stop - 1),
                              LAMBDA sib : sib.name = "p" /\ sib.len > 0)
        IN  /\ result.value <= call.max_chars
            /\ result.value
                  <= Sum([i \in 1..Len(kept) |-> kept[i].len]) + Len(kept) - 1

\* C36: in a --stats-only run no page is fetched and no request is sent,
\* no image is downloaded, the cache and both ledger files stay as they
\* are, and the CSV that is written holds the rows that were loaded.
C36_StatsOnlyFrame ==
    /\ [](/\ ~net
          /\ fetched = {}
          /\ pc \notin {"index", "fetch"})
    /\ [][/\ UNCHANGED <<cache, progress_file, skipped_file, images>>
          /\ csv_file' # csv_file =>
                (rows' = rows /\ read_existing_csv(csv_file') = rows)]_vars

\* C37: in a run that is not a dry run, each time the CSV is written (at a
\* batch boundary or at the end) the URLs of the rows written are exactly
\* the URLs of processed_urls.
C37_CheckpointMatchesProcessed ==
    [][(/\ pc \in {"batch_write", "final_write"}
        /\ pc' \in {"batch_sync", "final_sync"}
        /\ ~args.dry_run) =>
           RowURLs(read_existing_csv(csv_file')) = processed_urls']_vars

\* C38: the CSV never holds two rows with the same URL.
C38_OneRowPerURL ==
    LET stored == read_existing_csv(csv_file)
    IN  \A i, j \in 1..Len(stored) :
            stored[i].URL = stored[j].URL => i = j

\* C39: when no run is in progress, however the last one ended, every URL
\* of the progress file has a row in the CSV, so a run started without
\* --rebuild loads a row for each URL it takes as processed.
C39_ProcessedHaveRows ==
    /\ [](RunOver =>
            read_progress(progress_file)
                \subseteq RowURLs(read_existing_csv(csv_file)))
    /\ []((pc = "loop" /\ ~args.rebuild) =>
            start_known \ read_progress(skipped_file) \subseteq RowURLs(rows))

\* C40: a --rebuild run starts without rows, and its final write stores
\* exactly the rows of the entries accepted in the run, at most L of them
\* under a limit L > 0, in place of what the CSV held; a row of the old CSV
\* whose URL was not accepted again is not in it.
C40_RebuildReplacesCatalog ==
    /\ []((args.rebuild /\ Running) => existing_count = 0)
    /\ [][(/\ pc = "final_write"
           /\ pc' = "final_sync"
           /\ args.rebuild
           /\ ~args.dry_run) =>
              LET stored == read_existing_csv(csv_file')
              IN  /\ Len(stored) = Len(rows)
                  /\ \A i \in 1..Len(stored) :
                        /\ stored[i].URL \in fetched
                        /\ is_character_page(stored[i].Name,
                               parse_infobox(last_ok[stored[i].URL]))
                  /\ Len(stored) = Cardinality(RowURLs(stored))
                  /\ args.limit > 0 => Len(stored) <= args.limit]_vars

====
